---------------------------- MODULE Spec2Model ----------------------------
(***************************************************************************)
(* State-machine model of the SkillCapital chat back ends:                 *)
(*   src/chatbot.py                  POST /api/chat, get_smart_answer      *)
(*   src/skillcapital_chatbot_api.py POST /smart-chatbot                   *)
(*   src/app.py, src/bot.py          POST /chat                            *)
(*   src/chatbot.py                  POST /api/initialize, concurrent      *)
(*   src/chatbot_openai_streamlit.py the chat page of one browser session  *)
(* Python strings are TLA+ strings; Len, SubSeq and \o act on them as the  *)
(* Python operations len, slicing and + do.  The two non-ASCII decorations *)
(* of chatbot.py (the books emoji and the bullet) are written as ASCII     *)
(* stand-ins, see BOOKS and BULLET.                                        *)
(***************************************************************************)
EXTENDS Naturals, Sequences, FiniteSets, TLC

VARIABLES
    pc,                \* "idle"/"done": HTTP worker; "call"/"ret": a function under test
    op,                \* the handler or function that produced `result`
    curriculum_file,   \* content of course_curriculum.json on disk
    user_data,         \* chatbot.py's process-wide profile record
    request,           \* the input: the JSON body's "message", or a function's argument
    user_input_lower,  \* get_smart_answer's / normalize_input's normalized text
    result,            \* what the handler or function returned
    invoked,           \* downstream components called while handling `request`
    workers,           \* chatbot.py's request threads: position, handler, response
    agents_ok,         \* whether create_smart_agents() returns (TRUE) or raises
    log,               \* observer: per field the answer accepted last, the thread it
                       \* came from, whether it replaced another thread's value
    probe,             \* observer: profile at the latest request's start, the line
                       \* input() returned last, whether that request prompted
    session,           \* st.session_state: messages, last_sent_time
    now,               \* time.time(), in seconds
    ui,                \* observer of the chat page: last event, reply shown, accept times
    website,           \* what https://www.skillcapital.ai answers at the moment
    website_data,      \* get_smart_answer's local: what get_website_data returned
    earlier            \* observer: answer and website of the previous call

httpVars == <<pc, op, curriculum_file, user_data, request, user_input_lower, result, invoked>>
procVars == <<workers, agents_ok, log, probe>>
uiVars   == <<session, now, ui>>
webVars  == <<website, website_data, earlier>>

vars == <<httpVars, procVars, uiVars, webVars>>

(***************************************************************************)
(* Bounds of the model.                                                    *)
(***************************************************************************)
MaxPhrases == 2    \* a message is at most this many phrases joined by blanks
MaxModules == 2    \* modules per course of a generated curriculum
MaxTopics  == 2    \* topics per module of a generated curriculum

(***************************************************************************)
(* Python string operations.                                               *)
(***************************************************************************)
UpperLetters == "ABCDEFGHIJKLMNOPQRSTUVWXYZ"
LowerLetters == "abcdefghijklmnopqrstuvwxyz"
UpperSet     == {SubSeq(UpperLetters, i, i) : i \in 1..26}

\* str.lower() on one character
LowerChar(c) ==
    IF c \in UpperSet
    THEN LET i == CHOOSE j \in 1..26 : SubSeq(UpperLetters, j, j) = c
         IN  SubSeq(LowerLetters, i, i)
    ELSE c

RECURSIVE Lower(_)
\* str.lower()
Lower(s) ==
    IF \A i \in 1..Len(s) : SubSeq(s, i, i) \notin UpperSet THEN s
    ELSE LowerChar(SubSeq(s, 1, 1)) \o Lower(SubSeq(s, 2, Len(s)))

IsSpace(c) == c \in {" ", "\t", "\n", "\r"}

RECURSIVE LStrip(_)
LStrip(s) ==
    IF s # "" /\ IsSpace(SubSeq(s, 1, 1)) THEN LStrip(SubSeq(s, 2, Len(s))) ELSE s

RECURSIVE RStrip(_)
RStrip(s) ==
    IF s # "" /\ IsSpace(SubSeq(s, Len(s), Len(s)))
    THEN RStrip(SubSeq(s, 1, Len(s) - 1)) ELSE s

\* str.strip()
Strip(s) == RStrip(LStrip(s))

\* s holds k at (1-based) position i
MatchAt(s, k, i) == i + Len(k) - 1 <= Len(s) /\ SubSeq(s, i, i + Len(k) - 1) = k

\* the Python test `k in s` on strings
Contains(s, k) ==
    /\ Len(k) <= Len(s)
    /\ \E i \in 1..(Len(s) - Len(k) + 1) : SubSeq(s, i, i + Len(k) - 1) = k

RECURSIVE Replace(_, _, _)
\* str.replace(old, new) for a non-empty `old`: every occurrence, scanned left
\* to right, an occurrence never overlapping the one replaced before it
Replace(s, old, new) ==
    IF Len(s) < Len(old) THEN s
    ELSE LET n    == Len(old)
             hits == {i \in 1..(Len(s) - n + 1) : SubSeq(s, i, i + n - 1) = old}
         IN  IF hits = {} THEN s
             ELSE LET first == CHOOSE i \in hits : \A j \in hits : i <= j
                  IN  SubSeq(s, 1, first - 1) \o new
                          \o Replace(SubSeq(s, first + n, Len(s)), old, new)

RECURSIVE Join(_, _)
\* sep.join(lines)
Join(lines, sep) ==
    IF lines = <<>> THEN ""
    ELSE IF Len(lines) = 1 THEN lines[1]
    ELSE lines[1] \o sep \o Join(Tail(lines), sep)

(***************************************************************************)
(* chatbot.py: normalize_input                                             *)
(***************************************************************************)
\* the dict `corrections`, in insertion order
corrections == <<
    <<"curriculam", "curriculum">>,
    <<"trainning", "training">>,
    <<"enrolment", "enrollment">>,
    <<"skill capital", "skillcapital">>,
    <<"skill-capital", "skillcapital">>,
    <<"skill_capital", "skillcapital">>,
    <<"how much", "price">>,
    <<"costs", "cost">>,
    <<"fees", "fee">>,
    <<"hours", "duration">>,
    <<"time", "duration">>,
    <<"how long", "duration">>,
    <<"sign up", "enroll">>,
    <<"join", "enroll">>,
    <<"i want enroll", "enroll">>,
    <<"i want to enroll", "enroll">>,
    <<"how to enroll", "enroll">> >>

RECURSIVE ApplyCorrections(_, _)
\* the loop `for mistake, correction in corrections.items()` from entry i on
ApplyCorrections(normalized, i) ==
    IF i > Len(corrections) THEN normalized
    ELSE ApplyCorrections(Replace(normalized, corrections[i][1], corrections[i][2]), i + 1)

RECURSIVE ApplyCorrectionsBackwards(_, _)
ApplyCorrectionsBackwards(normalized, i) ==
    IF i < 1 THEN normalized
    ELSE ApplyCorrectionsBackwards(
             Replace(normalized, corrections[i][1], corrections[i][2]), i - 1)

normalize_input_backwards(user_input) ==
    ApplyCorrectionsBackwards(Lower(user_input), Len(corrections))

normalize_input(user_input) == ApplyCorrections(Lower(user_input), 1)


(***************************************************************************)
(* course_curriculum.json.  A JSON document is modelled by tagged records: *)
(*   file    [kind: "missing" | "unparseable" | "json", data]              *)
(*   data    [kind: "dict" | "list", keys, courses]   (the top-level value)*)
(*   courses [kind: "null" | "dict" | "list", items]  items: <<[key, val]>>*)
(*   course  [kind: "dict", name, curriculum] with either key optional, or *)
(*           [kind: "str"] for an entry that is no JSON object             *)
(*   module  a record with the optional keys module, duration, topics      *)
(* A dict keeps its keys in file order, as json.load's dict does.          *)
(***************************************************************************)
NoneData == [kind |-> "none", keys |-> <<>>, courses |-> [kind |-> "null", items |-> <<>>]]

\* a loader whose handler returns a half-built document, {"courses": None}
load_course_curriculum_partial(file) ==
    IF file.kind = "json" THEN file.data
    ELSE [kind |-> "dict", keys |-> <<"courses">>, courses |-> [kind |-> "null", items |-> <<>>]]

\* chatbot.py load_course_curriculum: json.load's value, None on any exception
load_course_curriculum(file) ==
    IF file.kind = "json" THEN file.data ELSE NoneData

\* skillcapital_chatbot_api.py load_course_curriculum: {} on any exception
EmptyDict == [kind |-> "dict", keys |-> <<>>, courses |-> [kind |-> "null", items |-> <<>>]]

api_load_course_curriculum(file) ==
    IF file.kind = "json" THEN file.data ELSE EmptyDict

\* Python truthiness of the loaded value: None and empty containers are false
Truthy(data) == data.kind # "none" /\ data.keys # <<>>

\* `'courses' in curriculum_data`
HasCourses(data) == \E i \in 1..Len(data.keys) : data.keys[i] = "courses"

\* `key in curriculum_data['courses']` for a dict or a list of objects
HasCourse(courses, key) ==
    /\ courses.kind = "dict"
    /\ \E i \in 1..Len(courses.items) : courses.items[i].key = key

\* curriculum_data['courses'][key]
GetCourse(courses, key) ==
    courses.items[CHOOSE i \in 1..Len(courses.items) : courses.items[i].key = key].val

(***************************************************************************)
(* chatbot.py: get_smart_answer                                            *)
(***************************************************************************)
BOOKS  == "<U+1F4DA>"    \* stands for the books emoji of the f-strings
BULLET == "<U+2022>"     \* stands for the bullet character of the f-strings

skillcapital_keywords == {
    "skillcapital", "skill capital", "skill-capital", "skill_capital",
    "course", "courses", "curriculum", "curriculam",
    "learn", "learning", "training", "trainning",
    "enroll", "enrollment", "enrolment", "register", "registration", "sign up", "join",
    "price", "pricing", "cost", "costs", "fee", "fees",
    "duration", "time", "hours", "how long",
    "python", "cloud", "devops", "ai", "machine learning",
    "programming", "coding", "development" }

content_words    == {"content", "curriculum", "curriculam", "modules", "syllabus", "topics"}
price_words      == {"price", "cost", "fee", "how much"}
duration_words   == {"duration", "time", "hours", "how long"}
enroll_words     == {"enroll", "join", "register", "sign up"}
python_words     == {"python"}
course_words     == {"course", "learn", "training"}

\* any(word in text for word in words)
AnyIn(words, text) == \E w \in words : Contains(text, w)

OFF_TOPIC == "I'm here to help with SkillCapital information! For general questions, I can assist you. What would you like to know about our courses, pricing, or enrollment process?"
FALLBACK  == "I'm here to help! For SkillCapital questions, visit skillcapital.ai. For other questions, I can assist you with general information."
PRICE     == "999/-"
DURATION  == "30 hours"
ENROLL    == "https://www.skillcapital.ai"
COURSES   == "Python, Cloud, DevOps"
SITE      == "skillcapital.ai"
OVERVIEW_DEFAULT == "Python: 6 modules, Cloud: 5 modules, DevOps: 6 modules, AI/ML: 5 modules"

\* the four course branches: the word tested, the key looked up, the heading
\* of the module listing and the one-line description used without the key
CourseBranches == <<
    [words |-> {"python"}, key |-> "python",
     title |-> "Python Programming Course Modules:",
     oneline |-> "Python Programming: Python Fundamentals, Data Structures, OOP, File Handling, Advanced Python, Practical Projects"],
    [words |-> {"cloud"}, key |-> "cloud_computing",
     title |-> "Cloud Computing Course Modules:",
     oneline |-> "Cloud Computing: Cloud Fundamentals, AWS Services, Azure Services, GCP, DevOps in Cloud"],
    [words |-> {"devops"}, key |-> "devops",
     title |-> "DevOps Engineering Course Modules:",
     oneline |-> "DevOps Engineering: DevOps Fundamentals, CI/CD, Containerization, Orchestration, Infrastructure as Code, Monitoring"],
    [words |-> {"ai", "machine learning"}, key |-> "ai_ml",
     title |-> "AI and Machine Learning Course Modules:",
     oneline |-> "AI and Machine Learning: AI Fundamentals, Supervised Learning, Unsupervised Learning, Deep Learning, AI Tools"] >>

\* values a Python expression can have: a string, or an exception raised
Ret(text)  == [raised |-> FALSE, text |-> text]
Raise      == [raised |-> TRUE,  text |-> ""]

\* a module whose three subscripts module['module'], module['duration'],
\* module['topics'] all succeed
ModuleOk(module) == {"module", "duration", "topics"} \subseteq DOMAIN module

RECURSIVE TopicLines_reversed(_)
TopicLines_reversed(topics) ==
    IF topics = <<>> THEN <<>>
    ELSE TopicLines_reversed(Tail(topics)) \o <<"  " \o BULLET \o " " \o Head(topics)>>

RECURSIVE TopicLines(_)
\* for topic in module['topics']: modules_info.append(f"  * {topic}")
TopicLines(topics) ==
    IF topics = <<>> THEN <<>>
    ELSE <<"  " \o BULLET \o " " \o Head(topics)>> \o TopicLines(Tail(topics))

RECURSIVE ModulesInfo(_)
\* the list modules_info built by the loop over course['curriculum']
ModulesInfo(modules) ==
    IF modules = <<>> THEN <<>>
    ELSE LET module == Head(modules)
         IN  <<BOOKS \o " " \o module.module \o " (" \o module.duration \o ")">>
                 \o TopicLines(module.topics) \o ModulesInfo(Tail(modules))

\* course['curriculum'] and every module subscript succeed
CourseOk(course) ==
    /\ course.kind = "dict"
    /\ "curriculum" \in DOMAIN course
    /\ \A i \in 1..Len(course.curriculum) : ModuleOk(course.curriculum[i])

CourseAnswer_unguarded(data, b) ==
    IF data.kind = "none" \/ ~HasCourses(data) THEN Raise
    ELSE IF data.courses.kind = "null" THEN Raise
    ELSE IF ~HasCourse(data.courses, b.key) THEN Ret(b.oneline)
    ELSE LET course == GetCourse(data.courses, b.key)
         IN  IF ~CourseOk(course) THEN Raise
             ELSE Ret(b.title \o "\n" \o Join(ModulesInfo(course.curriculum), "\n"))

\* one `if 'python' in user_input_lower:` branch of the curriculum block
CourseAnswer(data, b) ==
    IF ~Truthy(data) \/ ~HasCourses(data) THEN Ret(b.oneline)
    ELSE IF data.courses.kind = "null" THEN Raise       \* `key in None`: TypeError
    ELSE IF ~HasCourse(data.courses, b.key) THEN Ret(b.oneline)
    ELSE LET course == GetCourse(data.courses, b.key)
         IN  IF ~CourseOk(course) THEN Raise            \* KeyError / TypeError
             ELSE Ret(b.title \o "\n" \o Join(ModulesInfo(course.curriculum), "\n"))

RECURSIVE ModuleNamesOf(_)
\* [module['module'] for module in course['curriculum']]
ModuleNamesOf(modules) ==
    IF modules = <<>> THEN <<>>
    ELSE <<Head(modules).module>> \o ModuleNamesOf(Tail(modules))

RECURSIVE CoursesInfo(_)
\* the list courses_info of the general curriculum overview
CoursesInfo(items) ==
    IF items = <<>> THEN <<>>
    ELSE LET course == Head(items).val
         IN  <<BOOKS \o " " \o course.name \o ": "
                     \o Join(ModuleNamesOf(course.curriculum), ", ")>>
                 \o CoursesInfo(Tail(items))

\* every subscript of the overview loop succeeds
OverviewOk(courses) ==
    /\ courses.kind = "dict"                            \* .items() of a dict
    /\ \A i \in 1..Len(courses.items) :
          LET course == courses.items[i].val
          IN  /\ course.kind = "dict"
              /\ {"name", "curriculum"} \subseteq DOMAIN course
              /\ \A j \in 1..Len(course.curriculum) :
                    "module" \in DOMAIN course.curriculum[j]

\* the `else:` branch "General curriculum overview"
OverviewAnswer(data) ==
    IF ~Truthy(data) \/ ~HasCourses(data) THEN Ret(OVERVIEW_DEFAULT)
    ELSE IF ~OverviewOk(data.courses) THEN Raise
    ELSE Ret("Available Courses and Modules:\n"
                 \o Join(CoursesInfo(data.courses.items), "\n"))

\* the if/elif chain over the four course words inside the curriculum block
CurriculumAnswer(data, text) ==
    IF \E i \in 1..Len(CourseBranches) : AnyIn(CourseBranches[i].words, text)
    THEN LET i == CHOOSE j \in 1..Len(CourseBranches) :
                     /\ AnyIn(CourseBranches[j].words, text)
                     /\ \A h \in 1..(j - 1) : ~AnyIn(CourseBranches[h].words, text)
         IN  CourseAnswer(data, CourseBranches[i])
    ELSE OverviewAnswer(data)

OtherAnswer_duration_first(text) ==
    IF AnyIn(duration_words, text) THEN DURATION
    ELSE IF AnyIn(price_words, text) THEN PRICE
    ELSE IF AnyIn(enroll_words, text) THEN ENROLL
    ELSE IF AnyIn(python_words, text) THEN PRICE
    ELSE IF AnyIn(course_words, text) THEN COURSES
    ELSE SITE

OtherAnswer_course_first(text) ==
    IF AnyIn(price_words, text) THEN PRICE
    ELSE IF AnyIn(duration_words, text) THEN DURATION
    ELSE IF AnyIn(enroll_words, text) THEN ENROLL
    ELSE IF AnyIn(course_words, text) THEN COURSES
    ELSE IF AnyIn(python_words, text) THEN PRICE
    ELSE SITE

\* the elif chain "Handle other SkillCapital questions"
OtherAnswer(text) ==
    IF AnyIn(price_words, text) THEN PRICE
    ELSE IF AnyIn(duration_words, text) THEN DURATION
    ELSE IF AnyIn(enroll_words, text) THEN ENROLL
    ELSE IF AnyIn(python_words, text) THEN PRICE
    ELSE IF AnyIn(course_words, text) THEN COURSES
    ELSE SITE

\* the body of the try block, applied to the normalized text
SmartAnswerBody(data, text) ==
    IF AnyIn(skillcapital_keywords, text)
    THEN IF AnyIn(content_words, text)
         THEN CurriculumAnswer(data, text)
         ELSE Ret(OtherAnswer(text))
    ELSE Ret(OFF_TOPIC)

get_smart_answer_uncaught(file, text) ==
    SmartAnswerBody(load_course_curriculum(file), text)

\* get_smart_answer from the assignment of user_input_lower on:
\* try: ... except Exception: return the fallback sentence
get_smart_answer(file, text) ==
    LET body == SmartAnswerBody(load_course_curriculum(file), text)
    IN  IF body.raised THEN Ret(FALLBACK) ELSE body


(***************************************************************************)
(* Inputs: messages and curriculum files.                                  *)
(***************************************************************************)
RECURSIVE MessagesOf(_, _)
\* the messages of at most n phrases of P, joined by single blanks
MessagesOf(P, n) ==
    IF n = 0 THEN {}
    ELSE P \cup {m \o " " \o p : m \in MessagesOf(P, n - 1), p \in P}

CourseKeys     == <<"python", "cloud_computing", "devops", "ai_ml">>
CourseNames    == <<"Python Programming", "Cloud Computing", "DevOps Engineering",
                    "AI and Machine Learning">>
CourseShort    == <<"Python", "Cloud", "DevOps", "AI">>
GenericModules == <<"Fundamentals", "Data Structures", "Projects", "Tools">>
Durations      == <<"5 hours", "4 hours", "6 hours", "3 hours">>
TopicNames     == <<"Variables", "Loops", "Functions", "Classes">>

Pick(seq, i) == seq[((i - 1) % Len(seq)) + 1]

\* module i of course c; the first module has k topics, the next one k + 1,
\* and so on modulo MaxTopics + 1
GenModule(c, i, k) ==
    [module   |-> CourseShort[c] \o " " \o Pick(GenericModules, i),
     duration |-> Pick(Durations, i),
     topics   |-> [j \in 1..((k + i - 1) % (MaxTopics + 1)) |-> Pick(TopicNames, i + j - 1)]]

\* course c with n modules of k topics each
GenCourse(c, n, k) ==
    [kind |-> "dict", name |-> CourseNames[c],
     curriculum |-> [i \in 1..n |-> GenModule(c, i, k)]]

NullCourses == [kind |-> "null", items |-> <<>>]

\* the "courses" object holding the courses cs (indices into CourseKeys), in order
CoursesDict(cs, n, k) ==
    [kind  |-> "dict",
     items |-> [x \in 1..Len(cs) |-> [key |-> CourseKeys[cs[x]], val |-> GenCourse(cs[x], n, k)]]]

DictData(keys, courses) == [kind |-> "dict", keys |-> keys, courses |-> courses]
JsonFile(data) == [kind |-> "json", data |-> data]

WellFormedFile(cs, n, k) == JsonFile(DictData(<<"courses">>, CoursesDict(cs, n, k)))

\* a record without one of its keys
Without(rec, key) == [x \in (DOMAIN rec) \ {key} |-> rec[x]]

\* every course of the file damaged: its last module loses `key`
DamagedModules(key) ==
    LET good == CoursesDict(<<1, 2, 3, 4>>, MaxModules, MaxTopics)
        hurt(course) ==
            [course EXCEPT !.curriculum =
                [i \in 1..MaxModules |->
                    IF i = MaxModules THEN Without(course.curriculum[i], key)
                    ELSE course.curriculum[i]]]
    IN  JsonFile(DictData(<<"courses">>,
            [good EXCEPT !.items =
                [x \in 1..4 |-> [key |-> good.items[x].key, val |-> hurt(good.items[x].val)]]]))

\* every course of the file damaged: the course object loses `key`
DamagedCourses(key) ==
    LET good == CoursesDict(<<1, 2, 3, 4>>, MaxModules, MaxTopics)
    IN  JsonFile(DictData(<<"courses">>,
            [good EXCEPT !.items =
                [x \in 1..4 |-> [key |-> good.items[x].key,
                                 val |-> Without(good.items[x].val, key)]]]))

\* every course entry is a JSON string instead of an object
StringCourses ==
    JsonFile(DictData(<<"courses">>,
        [kind |-> "dict",
         items |-> [x \in 1..4 |-> [key |-> CourseKeys[x], val |-> [kind |-> "str"]]]]))

MissingFile     == [kind |-> "missing", data |-> NoneData]
UnparseableFile == [kind |-> "unparseable", data |-> NoneData]

\* files from which no course can be read
AbsentFiles ==
    { MissingFile, UnparseableFile,
      JsonFile(EmptyDict),                                   \* {}
      JsonFile(DictData(<<"version">>, NullCourses)),        \* no "courses" key
      JsonFile([kind |-> "list", keys |-> <<"[0]">>, courses |-> NullCourses]), \* [ {...} ]
      WellFormedFile(<<>>, 0, 0) }                           \* "courses": {}

WellFormedFiles ==
    { WellFormedFile(<<1, 2, 3, 4>>, n, k) : n \in 0..MaxModules, k \in 0..MaxTopics }
    \cup { WellFormedFile(cs, MaxModules, MaxTopics) :
              cs \in { <<2, 3, 4>>, <<1, 3, 4>>, <<1, 2, 4>>, <<1, 2, 3>>, <<4, 3, 2, 1>> } }

MalformedFiles ==
    { JsonFile(DictData(<<"courses">>, NullCourses)),        \* "courses": null
      StringCourses,
      DamagedCourses("curriculum"), DamagedCourses("name"),
      DamagedModules("module"), DamagedModules("duration"), DamagedModules("topics") }

CurriculumFiles == AbsentFiles \cup WellFormedFiles \cup MalformedFiles

AnswerPhrases ==
    { "python", "Cloud", "devops", "ai", "machine learning", "curriculum", "Syllabus",
      "how much", "hours", "join", "course" }

AnswerMessages == MessagesOf(AnswerPhrases, MaxPhrases)

NormPhrases ==
    { "costs", "costss", "join", "i want", "i want to", "how to", "sign up", "TIME",
      "how much", "Fees", "hours", "Skill Capital", "curriculam", "enroll", "python" }

NormMessages == MessagesOf(NormPhrases, MaxPhrases)

(***************************************************************************)
(* State.                                                                  *)
(***************************************************************************)
EmptyProfile == [name |-> "", email |-> "", phone |-> "", greeted |-> FALSE]
StrArg(s)    == [kind |-> "str", s |-> s]
NoResult     == [status |-> 0, key |-> "", text |-> "", value |-> <<>>]
Returned(r)  ==
    [status |-> 0, key |-> IF r.raised THEN "raise" ELSE "return", text |-> r.text,
     value |-> <<>>]

MaxWorkers == 2    \* request threads of the chatbot.py process
Workers == 1..MaxWorkers

IdleWorker == [pc |-> "idle", field |-> "", op |-> "", res |-> NoResult]
NoLine     == [kind |-> "none", s |-> ""]

\* the chatbot.py process right after start: no request in flight
ProcessStart ==
    /\ workers = [w \in Workers |-> IdleWorker]
    /\ log = [f \in {"name", "email", "phone"} |-> [w |-> 0, value |-> "", replaced |-> FALSE]]
    /\ probe = [start |-> EmptyProfile, line |-> NoLine, prompted |-> FALSE]

RATE_LIMIT_SECONDS == 5

\* a browser session right after the first script run (lines 88-92); the epoch
\* clock is far beyond RATE_LIMIT_SECONDS, the model counts from that value
NewSession ==
    /\ session = [messages |-> <<>>, last_sent_time |-> 0]
    /\ now = RATE_LIMIT_SECONDS
    /\ ui = [event |-> "", user_input |-> "", reply |-> "", shown |-> "", accepted |-> <<>>]

\* the site does not answer; nothing fetched, no previous call
Offline   == [kind |-> "connection_error"]
NoEarlier == [known |-> FALSE, text |-> "", website |-> Offline]

NoFetch ==
    /\ website = Offline
    /\ website_data = ""
    /\ earlier = NoEarlier

\* a function of chatbot.py about to be called on message m with file f on disk
CallState(m, f) ==
    /\ pc = "call"
    /\ op = ""
    /\ curriculum_file = f
    /\ user_data = EmptyProfile
    /\ request = StrArg(m)
    /\ user_input_lower = ""
    /\ result = NoResult
    /\ invoked = <<>>
    /\ ProcessStart
    /\ agents_ok = TRUE
    /\ NewSession
    /\ NoFetch

(***************************************************************************)
(* normalize_input applied to a message.                                   *)
(***************************************************************************)
InitNorm == \E m \in NormMessages : CallState(m, MissingFile)

NormalizeInput ==
    /\ pc = "call"
    /\ pc' = "ret"
    /\ op' = "normalize_input"
    /\ user_input_lower' = normalize_input(request.s)
    /\ result' = Returned(Ret(user_input_lower'))
    /\ invoked' = <<>>
    /\ UNCHANGED <<curriculum_file, user_data, request>>
    /\ UNCHANGED <<procVars, uiVars, webVars>>

NextNorm == NormalizeInput

SpecNorm == InitNorm /\ [][NextNorm]_vars

(***************************************************************************)
(* get_smart_answer applied to a message, with a curriculum file on disk.  *)
(***************************************************************************)
InitAnswer == \E m \in AnswerMessages, f \in CurriculumFiles : CallState(m, f)

GetSmartAnswer ==
    /\ pc = "call"
    /\ pc' = "ret"
    /\ op' = "get_smart_answer"
    /\ user_input_lower' = normalize_input(request.s)
    /\ result' = Returned(get_smart_answer(curriculum_file, user_input_lower'))
    /\ invoked' = <<"load_course_curriculum", "get_website_data", "normalize_input">>
    /\ UNCHANGED <<curriculum_file, user_data, request>>
    /\ UNCHANGED <<procVars, uiVars, webVars>>

NextAnswer == GetSmartAnswer

SpecAnswer == InitAnswer /\ [][NextAnswer]_vars


(***************************************************************************)
(* skillcapital_chatbot_api.py: find_relevant_courses                      *)
(***************************************************************************)
\* the list `courses`: the values of a "courses" object, or a "courses" array
CourseList(data) ==
    IF data.kind = "dict" /\ HasCourses(data) /\ data.courses.kind \in {"dict", "list"}
    THEN [i \in 1..Len(data.courses.items) |-> data.courses.items[i].val]
    ELSE <<>>

\* the test of the loop body: a dict whose lower-cased name is non-empty and in q
NameMatches(course, q) ==
    /\ course.kind = "dict"
    /\ LET name == Lower(IF "name" \in DOMAIN course THEN course.name ELSE "")
       IN  name # "" /\ Contains(q, name)

find_relevant_courses_no_fallback(question, curriculum_data) ==
    LET q       == Lower(question)
        courses == CourseList(curriculum_data)
    IN  SelectSeq(courses, LAMBDA course : NameMatches(course, q))

find_relevant_courses(question, curriculum_data) ==
    LET q       == Lower(question)
        courses == CourseList(curriculum_data)
        matched == SelectSeq(courses, LAMBDA course : NameMatches(course, q))
    IN  IF matched # <<>> THEN matched ELSE courses

MaxCourses == 2    \* entries of the "courses" collection of a generated file

\* what an entry of "courses" can be: an object with a name, one with an empty
\* name, one without the key, or a JSON string
NamedCourse(name) == [kind |-> "dict", name |-> name, curriculum |-> <<>>]

CourseEntries ==
    { NamedCourse(n) : n \in {"Python", "AI", "Cloud Computing", ""} }
    \cup { Without(NamedCourse(""), "name"), [kind |-> "str"] }

RECURSIVE EntryLists(_)
\* the lists of at most n entries
EntryLists(n) ==
    IF n = 0 THEN {<<>>}
    ELSE EntryLists(n - 1) \cup {Append(l, e) : l \in EntryLists(n - 1), e \in CourseEntries}

EntryKey(i) == Pick(<<"c1", "c2", "c3", "c4">>, i)

\* the file whose "courses" is an object (kind "dict") or an array (kind "list")
\* holding the entries l in order
MatchFile(kind, l) ==
    JsonFile(DictData(<<"courses">>,
        [kind |-> kind, items |-> [i \in 1..Len(l) |-> [key |-> EntryKey(i), val |-> l[i]]]]))

MatchFiles ==
    { MatchFile(kind, l) : kind \in {"dict", "list"}, l \in EntryLists(MaxCourses) }
    \cup AbsentFiles \cup { JsonFile(DictData(<<"courses">>, NullCourses)) }

MatchQuestions ==
    { "tell me about python", "asdf", "Tell me about PYTHON and AI", "he said hi",
      "cloud computing price", "" }

InitMatch == \E q \in MatchQuestions, f \in MatchFiles : CallState(q, f)

FindRelevantCourses ==
    /\ pc = "call"
    /\ pc' = "ret"
    /\ op' = "find_relevant_courses"
    /\ result' = [status |-> 0, key |-> "return", text |-> "",
                  value |-> find_relevant_courses(request.s,
                                api_load_course_curriculum(curriculum_file))]
    /\ invoked' = <<>>
    /\ UNCHANGED <<curriculum_file, user_data, request, user_input_lower>>
    /\ UNCHANGED <<procVars, uiVars, webVars>>

NextMatch == FindRelevantCourses

SpecMatch == InitMatch /\ [][NextMatch]_vars

(***************************************************************************)
(* The HTTP handlers.  A request carries the JSON body's "message":        *)
(* absent, null or a string.  A handler runs as one step from "idle" to    *)
(* "done"; Respond hands the result to the client and frees the worker.    *)
(***************************************************************************)
Absent == [kind |-> "absent", s |-> ""]
Null   == [kind |-> "null", s |-> ""]

\* request.json.get("message", ""): the string, "" for an absent key, None for null
IsNone(req)  == req.kind = "null"
Message(req) == IF req.kind = "str" THEN req.s ELSE ""

Http(status, key, text) == [status |-> status, key |-> key, text |-> text, value |-> <<>>]

\* what crew.kickoff() can do: produce a text, or raise
CrewOutcomes ==
    { [ok |-> TRUE,  text |-> " generated answer "],
      [ok |-> FALSE, text |-> "OpenAI API unreachable"],
      [ok |-> FALSE, text |-> "rate limit exceeded"] }

\* an exception that no handler catches: Flask answers 500 itself
Unhandled == Http(500, "unhandled", "Internal Server Error")

\* app.py chat(); bot.py chat() is the same but for the "trace" field, which
\* the model leaves out
crew_chat(req, crew) ==
    IF IsNone(req) THEN [res |-> Unhandled, calls |-> <<>>]       \* None.strip()
    ELSE IF Strip(Message(req)) = ""
    THEN [res |-> Http(400, "error", "Message is required"), calls |-> <<>>]
    ELSE [res   |-> IF crew.ok THEN Http(200, "response", Strip(crew.text))
                    ELSE Http(500, "error", crew.text),
          calls |-> <<"run_crew_chatbot_pipeline">>]

exit_words == {"exit", "quit", "bye", "goodbye"}

greetings == {
    "hi", "hello", "hey", "good morning", "good afternoon",
    "good evening", "morning", "afternoon", "evening",
    "hii", "helloo", "heyy", "hiii", "hellooo" }

detect_greeting(user_input) == AnyIn(greetings, Strip(Lower(user_input)))

ExitReply(name)     == "Thank you " \o name \o "! 'Happy Learning'!"
GreetingReply(name) == "Hello " \o name \o "! How can I assist you today?"
CHAT_ERROR == "An error occurred. Please visit https://www.skillcapital.ai for information!"

\* chatbot.py chat() after the empty-message test: the exit check, the
\* greeting check, the smart answer.  [res, calls, text]: text is the
\* normalized message if get_smart_answer ran
chat_dispatch_greeting_first(user_input, file, profile) ==
    IF detect_greeting(user_input)
    THEN [res |-> Http(200, "response", GreetingReply(profile.name)),
          calls |-> <<"detect_greeting">>, text |-> ""]
    ELSE IF AnyIn(exit_words, Lower(user_input))
    THEN [res |-> Http(200, "response", ExitReply(profile.name)),
          calls |-> <<"detect_greeting">>, text |-> ""]
    ELSE LET text == normalize_input(user_input)
         IN  [res   |-> Http(200, "response", get_smart_answer(file, text).text),
              calls |-> <<"detect_greeting", "get_smart_answer",
                          "load_course_curriculum", "get_website_data",
                          "normalize_input">>,
              text  |-> text]

chat_dispatch(user_input, file, profile) ==
    IF AnyIn(exit_words, Lower(user_input))
    THEN [res |-> Http(200, "response", ExitReply(profile.name)),
          calls |-> <<>>, text |-> ""]
    ELSE IF detect_greeting(user_input)
    THEN [res |-> Http(200, "response", GreetingReply(profile.name)),
          calls |-> <<"detect_greeting">>, text |-> ""]
    ELSE LET text == normalize_input(user_input)
         IN  [res   |-> Http(200, "response", get_smart_answer(file, text).text),
              calls |-> <<"detect_greeting", "get_smart_answer",
                          "load_course_curriculum", "get_website_data",
                          "normalize_input">>,
              text  |-> text]

chatbot_chat_unchecked(req, file, profile) ==
    IF IsNone(req)
    THEN [res |-> Http(500, "response", CHAT_ERROR), calls |-> <<>>, text |-> ""]
    ELSE chat_dispatch(Strip(Message(req)), file, profile)

\* chatbot.py chat()
chatbot_chat(req, file, profile) ==
    IF IsNone(req)                                               \* None.strip()
    THEN [res |-> Http(500, "response", CHAT_ERROR), calls |-> <<>>, text |-> ""]
    ELSE LET user_input == Strip(Message(req))
         IN  IF user_input = ""
             THEN [res |-> Http(400, "response", "Please enter a valid message."),
                   calls |-> <<>>, text |-> ""]
             ELSE chat_dispatch(user_input, file, profile)

RECURSIVE CleanedCourses(_)
\* summarize_response's cleaned_courses: the names of the dict entries
CleanedCourses(courses) ==
    IF courses = <<>> THEN <<>>
    ELSE LET c == Head(courses)
         IN  (IF c.kind = "dict"
              THEN <<IF "name" \in DOMAIN c THEN c.name ELSE "N/A">>
              ELSE <<>>) \o CleanedCourses(Tail(courses))

\* skillcapital_chatbot_api.py smart_chatbot()
smart_chatbot(req, file, crew) ==
    IF IsNone(req) \/ Message(req) = ""
    THEN [res |-> Http(400, "error", "Message is required"), calls |-> <<>>]
    ELSE LET matched == find_relevant_courses(Message(req), api_load_course_curriculum(file))
         IN  [res   |-> IF crew.ok
                        THEN [status |-> 200, key |-> "final_summary", text |-> crew.text,
                              value |-> CleanedCourses(matched)]
                        ELSE Http(500, "error", crew.text),
              calls |-> <<"get_website_data", "load_course_curriculum",
                          "find_relevant_courses", "run_chatbot_crew">>]

FilledProfile ==
    [name |-> "Asha Rao", email |-> "asha@example.com", phone |-> "9876543210",
     greeted |-> FALSE]

HttpFiles == { MissingFile, UnparseableFile,
               WellFormedFile(<<1, 2, 3, 4>>, MaxModules, MaxTopics),
               DamagedModules("topics") }

HttpPhrases ==
    { "hi", "bye", "what is the weather", "how much is the python course",
      "machine learning", "curriculum", "python", "GOODBYE", "Hello", "hours" }

Requests ==
    { Absent, Null }
    \cup { StrArg(m) : m \in {"", "   "} \cup MessagesOf(HttpPhrases, MaxPhrases) }

Init ==
    /\ pc = "idle"
    /\ op = ""
    /\ curriculum_file \in HttpFiles
    /\ user_data \in {EmptyProfile, FilledProfile}
    /\ request = Absent
    /\ user_input_lower = ""
    /\ result = NoResult
    /\ invoked = <<>>
    /\ ProcessStart
    /\ agents_ok = TRUE
    /\ NewSession
    /\ NoFetch

\* POST /chat of app.py
AppChat ==
    /\ pc = "idle"
    /\ \E req \in Requests, crew \in CrewOutcomes :
          LET r == crew_chat(req, crew)
          IN  /\ request' = req
              /\ result' = r.res
              /\ invoked' = r.calls
    /\ pc' = "done"
    /\ op' = "app_chat"
    /\ UNCHANGED <<curriculum_file, user_data, user_input_lower>>
    /\ UNCHANGED <<procVars, uiVars, webVars>>

\* POST /chat of bot.py
BotChat ==
    /\ pc = "idle"
    /\ \E req \in Requests, crew \in CrewOutcomes :
          LET r == crew_chat(req, crew)
          IN  /\ request' = req
              /\ result' = r.res
              /\ invoked' = r.calls
    /\ pc' = "done"
    /\ op' = "bot_chat"
    /\ UNCHANGED <<curriculum_file, user_data, user_input_lower>>
    /\ UNCHANGED <<procVars, uiVars, webVars>>

\* POST /api/chat of chatbot.py
ChatbotChat ==
    /\ pc = "idle"
    /\ \E req \in Requests :
          LET r == chatbot_chat(req, curriculum_file, user_data)
          IN  /\ request' = req
              /\ result' = r.res
              /\ invoked' = r.calls
              /\ user_input_lower' = r.text
    /\ pc' = "done"
    /\ op' = "chatbot_chat"
    /\ UNCHANGED <<curriculum_file, user_data>>
    /\ UNCHANGED <<procVars, uiVars, webVars>>

\* POST /smart-chatbot of skillcapital_chatbot_api.py
SmartChatbot ==
    /\ pc = "idle"
    /\ \E req \in Requests, crew \in CrewOutcomes :
          LET r == smart_chatbot(req, curriculum_file, crew)
          IN  /\ request' = req
              /\ result' = r.res
              /\ invoked' = r.calls
    /\ pc' = "done"
    /\ op' = "smart_chatbot"
    /\ UNCHANGED <<curriculum_file, user_data, user_input_lower>>
    /\ UNCHANGED <<procVars, uiVars, webVars>>

\* the framework sends the response; the worker takes the next request
Respond ==
    /\ pc = "done"
    /\ pc' = "idle"
    /\ op' = ""
    /\ request' = Absent
    /\ user_input_lower' = ""
    /\ result' = NoResult
    /\ invoked' = <<>>
    /\ UNCHANGED <<curriculum_file, user_data>>
    /\ UNCHANGED <<procVars, uiVars, webVars>>

Next == AppChat \/ BotChat \/ ChatbotChat \/ SmartChatbot \/ Respond

Spec == Init /\ [][Next]_vars


(***************************************************************************)
(* chatbot.py as one process with several request threads: POST            *)
(* /api/initialize (initialize_chat, collect_user_info) and POST /api/chat *)
(* share user_data.  collect_user_info is followed through its three       *)
(* loops: a thread is at a loop test ("test") or blocked in input()        *)
(* ("input") for the field `field`.                                        *)
(***************************************************************************)
LowerSet == {SubSeq(LowerLetters, i, i) : i \in 1..26}

\* str.upper() on one character
UpperChar(c) ==
    IF c \in LowerSet
    THEN LET i == CHOOSE j \in 1..26 : SubSeq(LowerLetters, j, j) = c
         IN  SubSeq(UpperLetters, i, i)
    ELSE c

RECURSIVE TitleFrom(_, _)
\* str.title() from a position on: a letter after a letter is lowered, a
\* letter after anything else is raised
TitleFrom(s, after_letter) ==
    IF s = "" THEN ""
    ELSE LET c      == SubSeq(s, 1, 1)
             letter == c \in LowerSet \/ c \in UpperSet
         IN  (IF ~letter THEN c
              ELSE IF after_letter THEN LowerChar(c) ELSE UpperChar(c))
                 \o TitleFrom(SubSeq(s, 2, Len(s)), letter)

Title(s) == TitleFrom(s, FALSE)

Fields == <<"name", "email", "phone">>

\* the three `if` tests of collect_user_info on the stripped answer
valid_name(name) == name # ""

valid_email_any(email) == email # ""

valid_email(email) == email # "" /\ Contains(email, "@")

valid_phone_short(phone) == phone # "" /\ Len(phone) >= 5

valid_phone(phone) == phone # "" /\ Len(phone) >= 10

Valid(field, value) ==
    CASE field = "name"  -> valid_name(value)
      [] field = "email" -> valid_email(value)
      [] field = "phone" -> valid_phone(value)

\* what is assigned: the name in title case, email and phone as typed
Stored(field, value) == IF field = "name" THEN Title(value) ELSE value

\* a loop test that reads the wrong key
needs_phone(profile, field) == profile["phone"] = ""

\* `while not user_data[field]`
needs(profile, field) == profile[field] = ""

\* an assignment that keeps a value already there
store_if_empty(profile, field, value) ==
    IF profile[field] = "" THEN [profile EXCEPT ![field] = value] ELSE profile

\* `user_data[field] = value`
store(profile, field, value) == [profile EXCEPT ![field] = value]

\* one pass through a loop body with the line input() returned
answer(profile, field, line) ==
    LET value == Strip(line)
    IN  IF Valid(field, value) THEN store(profile, field, Stored(field, value))
        ELSE profile

InitOk     == Http(200, "status", "Chatbot initialized successfully.")
InitFailed == Http(500, "error", "Initialization failed.")

\* initialize_chat without its try
initialize_chat_uncaught(raised) == IF raised THEN Unhandled ELSE InitOk

\* initialize_chat: the response for a body that returned or raised
initialize_chat(raised) == IF raised THEN InitFailed ELSE InitOk

\* the lines standard input can deliver
InputLines == { "  ", " asha rao ", " a@b.c", "9876543210" }
EndOfFile  == [kind |-> "eof", s |-> ""]
Line(s)    == [kind |-> "line", s |-> s]

ChatRequests == { StrArg("hi"), StrArg("") }

InitInitialize ==
    /\ pc = "idle"
    /\ op = ""
    /\ curriculum_file = MissingFile
    /\ user_data = EmptyProfile
    /\ request = Absent
    /\ user_input_lower = ""
    /\ result = NoResult
    /\ invoked = <<>>
    /\ ProcessStart
    /\ agents_ok \in BOOLEAN
    /\ NewSession
    /\ NoFetch

Done(w, o, r) == [workers EXCEPT ![w] = [pc |-> "done", field |-> "", op |-> o, res |-> r]]

Goto(w, p, f) ==
    [workers EXCEPT ![w] = [pc |-> p, field |-> f, op |-> "initialize", res |-> NoResult]]

\* POST /api/initialize arrives: create_smart_agents(), then collect_user_info()
\* up to its first loop test
StartInitialize(w) ==
    /\ workers[w].pc = "idle"
    /\ workers' = IF agents_ok THEN Goto(w, "test", "name")
                  ELSE Done(w, "initialize", initialize_chat(TRUE))
    /\ UNCHANGED <<httpVars, agents_ok, log, uiVars, webVars>>

\* a loop test; after the last loop the thanks are printed and 200 is returned
Test(w) ==
    /\ workers[w].pc = "test"
    /\ LET f == workers[w].field
       IN  IF needs(user_data, f)
           THEN workers' = Goto(w, "input", f)
           ELSE workers' = CASE f = "name"  -> Goto(w, "test", "email")
                             [] f = "email" -> Goto(w, "test", "phone")
                             [] f = "phone" -> Done(w, "initialize", initialize_chat(FALSE))
    /\ UNCHANGED <<httpVars, agents_ok, log, uiVars, webVars>>

\* the observer's entry for a field after thread w's answer was accepted
LogEntry(entry, w, value) ==
    [w |-> w, value |-> value,
     replaced |-> entry.replaced \/ (entry.w \notin {0, w} /\ entry.value # value)]

\* input() returns `line`; the body stores it or complains, then the test again
InputLine(w, line) ==
    /\ workers[w].pc = "input"
    /\ LET f == workers[w].field
       IN  /\ user_data' = answer(user_data, f, line)
           /\ log' = IF Valid(f, Strip(line))
                     THEN [log EXCEPT ![f] = LogEntry(@, w, Stored(f, Strip(line)))]
                     ELSE log
           /\ workers' = Goto(w, "test", f)
    /\ UNCHANGED <<pc, op, curriculum_file, request, user_input_lower, result, invoked>>
    /\ UNCHANGED <<agents_ok, uiVars, webVars>>

Input(w) == \E line \in InputLines : InputLine(w, line)

\* input() raises EOFError (standard input closed or exhausted)
InputEOF(w) ==
    /\ workers[w].pc = "input"
    /\ workers' = Done(w, "initialize", initialize_chat(TRUE))
    /\ UNCHANGED <<httpVars, agents_ok, log, uiVars, webVars>>

\* POST /api/chat, handled in one step: it reads user_data once
StartChat(w) ==
    /\ workers[w].pc = "idle"
    /\ \E req \in ChatRequests :
          workers' = Done(w, "chat", chatbot_chat(req, curriculum_file, user_data).res)
    /\ UNCHANGED <<httpVars, agents_ok, log, uiVars, webVars>>

\* the response is sent and the thread is free again
Finish(w) ==
    /\ workers[w].pc = "done"
    /\ workers' = [workers EXCEPT ![w] = IdleWorker]
    /\ UNCHANGED <<httpVars, agents_ok, log, uiVars, webVars>>

NextInitialize ==
    /\ \E w \in Workers :
          \/ StartInitialize(w)
          \/ StartChat(w)
          \/ Test(w)
          \/ Input(w)
          \/ InputEOF(w)
          \/ Finish(w)
    /\ UNCHANGED probe

\* requests may overlap
SpecInitialize == InitInitialize /\ [][NextInitialize]_vars

AllIdle == \A v \in Workers : workers[v].pc = "idle"

Started == [start |-> user_data, line |-> NoLine, prompted |-> FALSE]

\* the steps of a run in which a request arrives only when none is in flight;
\* `probe` follows the request
SeqStartInitialize(w) == AllIdle /\ StartInitialize(w) /\ probe' = Started

SeqStartChat(w) == AllIdle /\ StartChat(w) /\ probe' = Started

SeqTest(w) ==
    /\ Test(w)
    /\ probe' = [probe EXCEPT !.prompted = @ \/ workers'[w].pc = "input"]

SeqInputLine(w, line) == InputLine(w, line) /\ probe' = [probe EXCEPT !.line = Line(line)]

SeqInput(w) == \E line \in InputLines : SeqInputLine(w, line)

SeqInputEOF(w) == InputEOF(w) /\ probe' = [probe EXCEPT !.line = EndOfFile]

SeqFinish(w) == Finish(w) /\ UNCHANGED probe

NextSequential ==
    \E w \in Workers :
        \/ SeqStartInitialize(w)
        \/ SeqStartChat(w)
        \/ SeqTest(w)
        \/ SeqInput(w)
        \/ SeqInputEOF(w)
        \/ SeqFinish(w)

SpecSequential == InitInitialize /\ [][NextSequential]_vars

\* input() returns an answer the current loop accepts
ValidInput(w) ==
    /\ workers[w].pc = "input"
    /\ \E line \in InputLines :
          Valid(workers[w].field, Strip(line)) /\ SeqInputLine(w, line)

\* SpecSequential with threads that keep running and a user who, asked often
\* enough, gives an acceptable answer
SpecSequentialFair ==
    /\ SpecSequential
    /\ \A w \in Workers : WF_vars(SeqTest(w)) /\ SF_vars(ValidInput(w))

(***************************************************************************)
(* chatbot_openai_streamlit.py: the chat page of one browser session.  One *)
(* run of the script handles one event: a submitted message or a click on  *)
(* "New Chat".  The clock advances between runs.                           *)
(***************************************************************************)
MaxTime == 15      \* the clock is followed up to this second

\* the warning sign that opens the error reply, as ASCII
WARNING   == "<U+26A0>"
LLM_ERROR == WARNING \o " Something went wrong while fetching response."

\* st.chat_input returns a non-empty text
UserInputs == { "hello", "what is python" }

\* what client.chat.completions.create can do: answer, or raise
LlmOutcomes ==
    { [ok |-> TRUE,  text |-> " Hi there! "],
      [ok |-> TRUE,  text |-> "Python is a language.\n"],
      [ok |-> FALSE, text |-> ""] }

RECURSIVE TypeFrom(_, _)
\* typewriter's loop: `output += char` for every char of the text
TypeFrom(text, output) ==
    IF text = "" THEN output
    ELSE TypeFrom(SubSeq(text, 2, Len(text)), output \o SubSeq(text, 1, 1))

typewriter(text) == TypeFrom(text, "")

Entry(role, content) == [role |-> role, content |-> content]

\* the try block: the stripped completion, or the error reply
reply_of(llm) == IF llm.ok THEN Strip(llm.text) ELSE LLM_ERROR

\* `now - st.session_state.last_sent_time < RATE_LIMIT_SECONDS`
rate_limited(t, last_sent_time) == t - last_sent_time < RATE_LIMIT_SECONDS

\* a rejection that restarts the waiting period
rejected_restarts(s, t) == [s EXCEPT !.last_sent_time = t]

\* the `if` branch: a warning, the session untouched
rejected(s, t) == s

\* an else branch that stores no reply when the completion call raised
accepted_no_error_reply(s, t, user_input, llm) ==
    [messages |->
        IF llm.ok
        THEN s.messages \o <<Entry("user", user_input), Entry("assistant", reply_of(llm))>>
        ELSE Append(s.messages, Entry("user", user_input)),
     last_sent_time |-> t]

\* the else branch: the time, the user entry, the completion, the assistant entry
accepted(s, t, user_input, llm) ==
    [messages |->
        s.messages \o <<Entry("user", user_input), Entry("assistant", reply_of(llm))>>,
     last_sent_time |-> t]

InitChatPage ==
    /\ pc = "idle"
    /\ op = ""
    /\ curriculum_file = MissingFile
    /\ user_data = EmptyProfile
    /\ request = Absent
    /\ user_input_lower = ""
    /\ result = NoResult
    /\ invoked = <<>>
    /\ ProcessStart
    /\ agents_ok = TRUE
    /\ NewSession
    /\ NoFetch

\* the user submits a message (lines 134-162)
Submit ==
    /\ \E user_input \in UserInputs, llm \in LlmOutcomes :
          IF rate_limited(now, session.last_sent_time)
          THEN /\ session' = rejected(session, now)
               /\ ui' = [ui EXCEPT !.event = "rejected", !.user_input = user_input,
                                   !.reply = "", !.shown = ""]
          ELSE /\ session' = accepted(session, now, user_input, llm)
               /\ ui' = [event |-> "accepted", user_input |-> user_input,
                         reply |-> reply_of(llm), shown |-> typewriter(reply_of(llm)),
                         accepted |-> Append(ui.accepted, now)]
    /\ UNCHANGED <<httpVars, procVars, webVars, now>>

\* the user clicks "New Chat" (lines 30-32)
NewChat ==
    /\ session' = [session EXCEPT !.messages = <<>>]
    /\ ui' = [ui EXCEPT !.event = "new_chat", !.user_input = "", !.reply = "", !.shown = ""]
    /\ UNCHANGED <<httpVars, procVars, webVars, now>>

\* a second passes
Tick ==
    /\ now < MaxTime
    /\ now' = now + 1
    /\ UNCHANGED <<httpVars, procVars, webVars, session, ui>>

NextChatPage == Submit \/ NewChat \/ Tick

SpecChatPage == InitChatPage /\ [][NextChatPage]_vars

(***************************************************************************)
(* chatbot.py: get_smart_answer together with the website fetch it makes   *)
(* on every call.  A site is [kind], kind one of "ok", "timeout",          *)
(* "http_error", "connection_error"; an "ok" site carries the page: the    *)
(* optional keys title and description and `elements`, the texts of the    *)
(* elements find_all returns.  The same question is asked twice, the site  *)
(* changing in between.                                                    *)
(***************************************************************************)
UNABLE == "Unable to fetch website data at this time."

important_words == {"hour", "duration", "time", "course", "price", "cost", "999"}

RECURSIVE ElementLines(_)
\* the loop over main_content.find_all(...)
ElementLines(elements) ==
    IF elements = <<>> THEN <<>>
    ELSE LET text == Strip(Head(elements))
         IN  (IF text # "" /\ Len(text) > 10
              THEN IF AnyIn(important_words, Lower(text))
                   THEN <<"Important: " \o text>>
                   ELSE <<text>>
              ELSE <<>>) \o ElementLines(Tail(elements))

\* the list `data` of a page that was fetched and parsed
PageData(site) ==
    (IF "title" \in DOMAIN site THEN <<"Website Title: " \o Strip(site.title)>> ELSE <<>>)
    \o (IF "description" \in DOMAIN site
        THEN <<"Description: " \o Strip(site.description)>> ELSE <<>>)
    \o ElementLines(site.elements)

\* data[:50]
FirstFifty(data) == IF Len(data) <= 50 THEN data ELSE SubSeq(data, 1, 50)

\* a fetch whose failure is not caught
get_website_data_uncaught(site) ==
    IF site.kind # "ok" THEN Raise
    ELSE Ret(Join(FirstFifty(PageData(site)), "\n"))

\* get_website_data: the page's lines, or the apology on any exception
get_website_data(site) ==
    IF site.kind # "ok" THEN Ret(UNABLE)
    ELSE Ret(Join(FirstFifty(PageData(site)), "\n"))

\* get_smart_answer with its fetch: [res, website_data]
get_smart_answer_fetching(file, site, user_input) ==
    LET fetched == get_website_data(site)
    IN  IF fetched.raised
        THEN [res |-> Ret(FALLBACK), website_data |-> ""]
        ELSE [res |-> get_smart_answer(file, normalize_input(user_input)),
              website_data |-> fetched.text]

Sites ==
    { [kind |-> "timeout"], [kind |-> "http_error"],
      [kind |-> "ok", title |-> " SkillCapital ", description |-> "Learn online",
       elements |-> <<"Python course for 999 only", "short",
                      "All about our learning platform">>],
      [kind |-> "ok", elements |-> <<"Courses now cost 1999, duration 40 hours">>],
      [kind |-> "ok", elements |-> <<>>] }

WebFiles == { MissingFile, WellFormedFile(<<1, 2, 3, 4>>, MaxModules, MaxTopics),
              DamagedModules("topics") }

WebPhrases == { "how much", "python", "curriculum", "weather", "ai" }

WebMessages == MessagesOf(WebPhrases, MaxPhrases)

InitWebsite ==
    /\ pc = "call"
    /\ op = ""
    /\ curriculum_file \in WebFiles
    /\ user_data = EmptyProfile
    /\ request \in {StrArg(m) : m \in WebMessages}
    /\ user_input_lower = ""
    /\ result = NoResult
    /\ invoked = <<>>
    /\ ProcessStart
    /\ agents_ok = TRUE
    /\ NewSession
    /\ website \in Sites
    /\ website_data = ""
    /\ earlier = NoEarlier

\* get_smart_answer(user_input) with the site as it is now
Ask ==
    /\ pc = "call"
    /\ pc' = "ret"
    /\ op' = "get_smart_answer"
    /\ LET r == get_smart_answer_fetching(curriculum_file, website, request.s)
       IN  /\ result' = Returned(r.res)
           /\ website_data' = r.website_data
    /\ user_input_lower' = normalize_input(request.s)
    /\ invoked' = <<"load_course_curriculum", "get_website_data", "normalize_input">>
    /\ UNCHANGED <<curriculum_file, user_data, request, website, earlier>>
    /\ UNCHANGED <<procVars, uiVars>>

\* the answer is noted, the site changes, the same question is asked again
AskAgain ==
    /\ pc = "ret"
    /\ ~earlier.known
    /\ earlier' = [known |-> TRUE, text |-> result.text, website |-> website]
    /\ website' \in Sites
    /\ pc' = "call"
    /\ op' = ""
    /\ user_input_lower' = ""
    /\ result' = NoResult
    /\ invoked' = <<>>
    /\ website_data' = ""
    /\ UNCHANGED <<curriculum_file, user_data, request>>
    /\ UNCHANGED <<procVars, uiVars>>

NextWebsite == Ask \/ AskAgain

SpecWebsite == InitWebsite /\ [][NextWebsite]_vars

(***************************************************************************)
(* Properties.                                                             *)
(***************************************************************************)
Range(seq) == {seq[i] : i \in 1..Len(seq)}

\* the request's message is missing (no "message" key) or the empty string
EmptyOrMissing == request.kind = "absent" \/ (request.kind = "str" /\ request.s = "")

\* C1: at every chat endpoint (app.py, bot.py, chatbot.py, skillcapital_chatbot_api.py)
\* a request whose message is empty or missing is answered with a 4xx status and
\* nothing downstream has been called: no normalizer, classifier, curriculum load,
\* website fetch or crew run.
C1_EmptyMessageRejected ==
    (pc = "done" /\ EmptyOrMissing) =>
        /\ result.status \in 400..499
        /\ invoked = <<>>
        /\ user_input_lower = ""

C1_Witness ==
    /\ pc = "done"
    /\ op = "chatbot_chat"
    /\ request = StrArg("")
    /\ result.status = 400

\* C2: POST /api/chat of chatbot.py decides in the order exit, greeting, domain:
\* a message with an exit keyword gets the exit reply whatever else it contains,
\* otherwise one with a greeting keyword gets the greeting reply, and only a
\* message with neither reaches get_smart_answer; "hi" is greeted, "bye" gets the
\* exit reply, "what is the weather" the off-topic reply and "how much is the
\* python course" the price.
C2_Precedence ==
    (pc = "done" /\ op = "chatbot_chat" /\ request.kind = "str" /\ Strip(request.s) # "") =>
        LET low      == Lower(request.s)
            hasExit  == \E w \in {"exit", "quit", "bye", "goodbye"} : Contains(low, w)
            hasGreet == \E g \in greetings : Contains(low, g)
        IN  /\ hasExit => result.text = "Thank you " \o user_data.name \o "! 'Happy Learning'!"
            /\ (~hasExit /\ hasGreet) =>
                   result.text = "Hello " \o user_data.name \o "! How can I assist you today?"
            /\ ("get_smart_answer" \in Range(invoked)) <=> (~hasExit /\ ~hasGreet)
            /\ request.s = "hi" => result.text = GreetingReply(user_data.name)
            /\ request.s = "bye" => result.text = ExitReply(user_data.name)
            /\ request.s = "what is the weather" => result.text = OFF_TOPIC
            /\ request.s = "how much is the python course" => result.text = "999/-"

C2_Witness ==
    /\ pc = "done"
    /\ op = "chatbot_chat"
    /\ request = StrArg("bye hi")
    /\ user_data = FilledProfile
    /\ result.text = "Thank you Asha Rao! 'Happy Learning'!"


\* get_smart_answer has returned for the message in `request`
Answered == pc = "ret" /\ op = "get_smart_answer"

IsDomain     == AnyIn(skillcapital_keywords, user_input_lower)
IsDetail     == AnyIn(content_words, user_input_lower)
IsPrice      == AnyIn(price_words, user_input_lower)
IsDuration   == AnyIn(duration_words, user_input_lower)
IsEnrollment == AnyIn(enroll_words, user_input_lower)

\* C3: get_smart_answer returns the off-topic string for a normalized message
\* without a domain keyword, whatever sub-intent words it holds; with a domain
\* keyword the sub-intents are tried in the order curriculum detail, price,
\* duration, enrollment and the first that matches decides: price is always
\* "999/-", duration always "30 hours", enrollment always the site URL, for every
\* curriculum file.
C3_SubIntentOrder ==
    Answered =>
        /\ ~IsDomain => result.text = OFF_TOPIC
        /\ (IsDomain /\ IsDetail) =>
               result.text \notin {"999/-", "30 hours", "https://www.skillcapital.ai", OFF_TOPIC}
        /\ (IsDomain /\ ~IsDetail /\ IsPrice) => result.text = "999/-"
        /\ (IsDomain /\ ~IsDetail /\ ~IsPrice /\ IsDuration) => result.text = "30 hours"
        /\ (IsDomain /\ ~IsDetail /\ ~IsPrice /\ ~IsDuration /\ IsEnrollment) =>
               result.text = "https://www.skillcapital.ai"

C3_Witness ==
    /\ Answered
    /\ request = StrArg("how much hours")
    /\ user_input_lower = "price duration"
    /\ curriculum_file = WellFormedFile(<<1, 2, 3, 4>>, MaxModules, MaxTopics)
    /\ result.text = "999/-"

\* a domain keyword matched and no sub-intent set did
NoSubIntent == ~IsDetail /\ ~IsPrice /\ ~IsDuration /\ ~IsEnrollment /\ IsDomain

\* C4 as claimed: a message with a domain keyword and no sub-intent word gets one
\* fixed generic acknowledgment, the same for every such message, which is none
\* of the price, duration and enrollment strings.
C4_GenericAcknowledgment ==
    (Answered /\ NoSubIntent) =>
        /\ result.text = "skillcapital.ai"
        /\ result.text \notin {"999/-", "30 hours", "https://www.skillcapital.ai"}

\* C4 as amended: such a message gets one of three fixed strings, chosen by
\* further keyword tests in order: the price string "999/-" if it contains
\* "python", else the course list if it contains "course", "learn" or
\* "training", else "skillcapital.ai"; never the duration or enrollment string.
C4_DefaultChain ==
    (Answered /\ NoSubIntent) =>
        /\ result.text =
              IF Contains(user_input_lower, "python") THEN "999/-"
              ELSE IF \E w \in {"course", "learn", "training"} : Contains(user_input_lower, w)
                   THEN "Python, Cloud, DevOps"
                   ELSE "skillcapital.ai"
        /\ result.text \notin {"30 hours", "https://www.skillcapital.ai"}

C4_Witness ==
    /\ Answered
    /\ request = StrArg("python course")
    /\ NoSubIntent
    /\ result.text = "999/-"


\* normalize_input has returned for the message in `request`
Normalized == pc = "ret" /\ op = "normalize_input"

\* the occurrences of synonym-table variants in s: (table entry, position) pairs
VariantOccurrences(s) ==
    {<<r, i>> \in (1..Len(corrections)) \X (1..Len(s)) : MatchAt(s, corrections[r][1], i)}

\* C5: for an input holding exactly one occurrence of one synonym-table variant,
\* with any text around it, normalizing the normalized text changes nothing:
\* normalize_input(normalize_input(x)) = normalize_input(x).
C5_IdempotentOnOneVariant ==
    (Normalized /\ Cardinality(VariantOccurrences(request.s)) = 1) =>
        normalize_input(user_input_lower) = user_input_lower

\* the 17 replacements written out, each applied to the output of the one before
C6_Chain(x) ==
    LET s0  == Lower(x)
        s1  == Replace(s0,  "curriculam", "curriculum")
        s2  == Replace(s1,  "trainning", "training")
        s3  == Replace(s2,  "enrolment", "enrollment")
        s4  == Replace(s3,  "skill capital", "skillcapital")
        s5  == Replace(s4,  "skill-capital", "skillcapital")
        s6  == Replace(s5,  "skill_capital", "skillcapital")
        s7  == Replace(s6,  "how much", "price")
        s8  == Replace(s7,  "costs", "cost")
        s9  == Replace(s8,  "fees", "fee")
        s10 == Replace(s9,  "hours", "duration")
        s11 == Replace(s10, "time", "duration")
        s12 == Replace(s11, "how long", "duration")
        s13 == Replace(s12, "sign up", "enroll")
        s14 == Replace(s13, "join", "enroll")
        s15 == Replace(s14, "i want enroll", "enroll")
        s16 == Replace(s15, "i want to enroll", "enroll")
        s17 == Replace(s16, "how to enroll", "enroll")
    IN  s17

\* C6: normalize_input returns a string: the lower-cased input with the table's
\* replacements applied one after another in table order, each to the output of
\* the one before, so that "join" -> "enroll" feeds "i want enroll" -> "enroll";
\* the result depends on the input alone.
C6_OrderedComposition ==
    Normalized =>
        /\ result.key = "return"
        /\ result.text = user_input_lower
        /\ user_input_lower = C6_Chain(request.s)
        /\ Lower(user_input_lower) = user_input_lower
        /\ request.s = "i want join" => user_input_lower = "enroll"
        /\ request.s = "how to sign up" => user_input_lower = "enroll"

C6_Witness ==
    /\ Normalized
    /\ request = StrArg("i want join")
    /\ user_input_lower = "enroll"


\* find_relevant_courses has returned for the question in `request`
Matched == pc = "ret" /\ op = "find_relevant_courses"

\* the entries of the file's "courses" collection, in file order
FileCourses ==
    LET d == curriculum_file.data
    IN  IF curriculum_file.kind = "json" /\ d.kind = "dict" /\ "courses" \in Range(d.keys)
           /\ d.courses.kind # "null"
        THEN [i \in 1..Len(d.courses.items) |-> d.courses.items[i].val]
        ELSE <<>>

\* the positions of the courses whose lower-cased name is a non-empty substring
\* of the lower-cased question
NamedIn(question) ==
    {i \in 1..Len(FileCourses) :
        LET c == FileCourses[i]
        IN  /\ c.kind = "dict"
            /\ "name" \in DOMAIN c
            /\ c.name # ""
            /\ Contains(Lower(question), Lower(c.name))}

\* the j-th smallest element of a set of numbers
Nth(S, j) == CHOOSE i \in S : Cardinality({x \in S : x < i}) = j - 1

\* C7: find_relevant_courses returns exactly the courses whose lower-cased name is
\* a non-empty substring of the lower-cased question, in curriculum order, and the
\* full course list if there is none; with a course named "python" the question
\* "tell me about python" returns that course alone and "asdf" the full list.
C7_MatchOrAll ==
    Matched =>
        LET hits == NamedIn(request.s)
        IN  /\ hits = {} => result.value = FileCourses
            /\ hits # {} =>
                  /\ Len(result.value) = Cardinality(hits)
                  /\ \A j \in 1..Len(result.value) : result.value[j] = FileCourses[Nth(hits, j)]
            /\ request.s = "asdf" => result.value = FileCourses
            /\ (request.s = "tell me about python"
                    /\ \E i \in 1..Len(FileCourses) :
                          FileCourses[i].kind = "dict" /\ "name" \in DOMAIN FileCourses[i]
                          /\ Lower(FileCourses[i].name) = "python") =>
                  /\ result.value # <<>>
                  /\ \A j \in 1..Len(result.value) : Lower(result.value[j].name) = "python"

C7_Witness ==
    /\ Matched
    /\ request = StrArg("tell me about python")
    /\ curriculum_file = MatchFile("dict", <<NamedCourse("AI"), NamedCourse("Python")>>)
    /\ result.value = <<NamedCourse("Python")>>


RECURSIVE SplitLines(_)
\* the lines of s: the pieces between its "\n" characters
SplitLines(s) ==
    LET breaks == {i \in 1..Len(s) : SubSeq(s, i, i) = "\n"}
    IN  IF breaks = {} THEN <<s>>
        ELSE LET first == CHOOSE i \in breaks : \A j \in breaks : i <= j
             IN  <<SubSeq(s, 1, first - 1)>> \o SplitLines(SubSeq(s, first + 1, Len(s)))

\* the course key a curriculum-detail request names: the first of python, cloud,
\* devops, ai / machine learning found in the normalized message; "" if none
NamedCourseKey ==
    IF Contains(user_input_lower, "python") THEN "python"
    ELSE IF Contains(user_input_lower, "cloud") THEN "cloud_computing"
    ELSE IF Contains(user_input_lower, "devops") THEN "devops"
    ELSE IF Contains(user_input_lower, "ai") \/ Contains(user_input_lower, "machine learning")
         THEN "ai_ml"
         ELSE ""

\* a curriculum-detail request that names a course
DetailRequest == Answered /\ IsDetail /\ NamedCourseKey # "" /\ IsDomain

\* the file on disk parses to an object with a "courses" object
HasCoursesObject ==
    /\ curriculum_file.kind = "json"
    /\ curriculum_file.data.kind = "dict"
    /\ "courses" \in Range(curriculum_file.data.keys)
    /\ curriculum_file.data.courses.kind = "dict"

CourseKeysOnDisk ==
    {curriculum_file.data.courses.items[i].key :
        i \in 1..Len(curriculum_file.data.courses.items)}

CourseOnDisk(key) ==
    LET items == curriculum_file.data.courses.items
    IN  items[CHOOSE i \in 1..Len(items) : items[i].key = key].val

\* the course has a module list whose modules have a name, a duration and topics
WellFormedCourse(course) ==
    /\ course.kind = "dict"
    /\ "curriculum" \in DOMAIN course
    /\ \A i \in 1..Len(course.curriculum) :
          DOMAIN course.curriculum[i] = {"module", "duration", "topics"}

RECURSIVE LinesBefore(_, _)
\* the lines the modules before module i take: one each, plus one per topic
LinesBefore(modules, i) ==
    IF i <= 1 THEN 0
    ELSE LinesBefore(modules, i - 1) + 1 + Len(modules[i - 1].topics)

TitleOf(key) ==
    CASE key = "python"          -> "Python Programming Course Modules:"
      [] key = "cloud_computing" -> "Cloud Computing Course Modules:"
      [] key = "devops"          -> "DevOps Engineering Course Modules:"
      [] key = "ai_ml"           -> "AI and Machine Learning Course Modules:"

\* C8: a curriculum-detail request that names a course present in the curriculum
\* is answered by the course heading and then, for every module in curriculum
\* order, one line "<module name> (<duration>)" (behind the books emoji)
\* directly followed by one indented bullet line per topic in topic order:
\* nothing left out, doubled or reordered.  For "Python" with the one module
\* "Python Fundamentals" ("5 hours"; Variables, Loops) the lines are
\* "Python Fundamentals (5 hours)", "Variables", "Loops".
C8_ModuleListing ==
    (DetailRequest /\ HasCoursesObject /\ NamedCourseKey \in CourseKeysOnDisk
        /\ WellFormedCourse(CourseOnDisk(NamedCourseKey))) =>
        LET modules == CourseOnDisk(NamedCourseKey).curriculum
            lines   == SplitLines(result.text)
            listing == Tail(lines)
        IN  /\ lines[1] = TitleOf(NamedCourseKey)
            /\ modules = <<>> => listing = <<"">>
            /\ modules # <<>> =>
                  /\ Len(listing) = LinesBefore(modules, Len(modules) + 1)
                  /\ \A i \in 1..Len(modules) :
                        LET at == LinesBefore(modules, i) + 1
                        IN  /\ listing[at] = BOOKS \o " " \o modules[i].module
                                                 \o " (" \o modules[i].duration \o ")"
                            /\ \A j \in 1..Len(modules[i].topics) :
                                  listing[at + j] = "  " \o BULLET \o " " \o modules[i].topics[j]

C8_Witness ==
    /\ Answered
    /\ request = StrArg("python curriculum")
    /\ curriculum_file = WellFormedFile(<<1, 2, 3, 4>>, 1, 2)
    /\ CourseOnDisk("python").curriculum =
          <<[module |-> "Python Fundamentals", duration |-> "5 hours",
             topics |-> <<"Variables", "Loops">>]>>
    /\ SplitLines(result.text) =
          << "Python Programming Course Modules:",
             BOOKS \o " Python Fundamentals (5 hours)",
             "  " \o BULLET \o " Variables",
             "  " \o BULLET \o " Loops" >>

\* the named course cannot be read from the file: the file is missing or does
\* not parse, the document has no "courses" key, or "courses" lacks the key
CourseAbsent ==
    \/ curriculum_file.kind # "json"
    \/ "courses" \notin Range(curriculum_file.data.keys)
    \/ HasCoursesObject /\ NamedCourseKey \notin CourseKeysOnDisk

OneLineOf(key) ==
    CASE key = "python" ->
           "Python Programming: Python Fundamentals, Data Structures, OOP, File Handling, Advanced Python, Practical Projects"
      [] key = "cloud_computing" ->
           "Cloud Computing: Cloud Fundamentals, AWS Services, Azure Services, GCP, DevOps in Cloud"
      [] key = "devops" ->
           "DevOps Engineering: DevOps Fundamentals, CI/CD, Containerization, Orchestration, Infrastructure as Code, Monitoring"
      [] key = "ai_ml" ->
           "AI and Machine Learning: AI Fundamentals, Supervised Learning, Unsupervised Learning, Deep Learning, AI Tools"

\* C9: a curriculum-detail request naming a course that is absent from the loaded
\* curriculum (file missing, no "courses" key, or the course key missing) gets
\* that course's fixed one-line description, not the fallback sentence.
C9_AbsentCourseOneLiner ==
    (DetailRequest /\ CourseAbsent) =>
        /\ result.key = "return"
        /\ result.text = OneLineOf(NamedCourseKey)

C9_Witness ==
    /\ Answered
    /\ request = StrArg("Cloud Syllabus")
    /\ curriculum_file = MissingFile
    /\ result.text =
          "Cloud Computing: Cloud Fundamentals, AWS Services, Azure Services, GCP, DevOps in Cloud"

\* an exception is raised inside get_smart_answer's try block
InternalError ==
    SmartAnswerBody(load_course_curriculum(curriculum_file), user_input_lower).raised

\* C10: no exception escapes get_smart_answer: for every message and curriculum
\* content, malformed entries included, it returns a string, and whenever an
\* error occurs inside, that string is the fixed fallback sentence.
C10_NoExceptionEscapes ==
    Answered =>
        /\ result.key = "return"
        /\ InternalError => result.text = FALLBACK
        /\ (DetailRequest /\ curriculum_file \in MalformedFiles \ {DamagedCourses("name")}) =>
               result.text =
                   "I'm here to help! For SkillCapital questions, visit skillcapital.ai. For other questions, I can assist you with general information."

C10_Witness ==
    /\ Answered
    /\ request = StrArg("python curriculum")
    /\ curriculum_file = DamagedModules("duration")
    /\ InternalError
    /\ result.key = "return"
    /\ result.text = FALLBACK


\* the curriculum file cannot be read, and the request handled has loaded it
LoadFailed ==
    /\ pc = "done"
    /\ curriculum_file.kind \in {"missing", "unparseable"}
    /\ "load_course_curriculum" \in Range(invoked)

\* C11 as stated: with the curriculum file absent or unparseable, the load in
\* chatbot.py and the load in skillcapital_chatbot_api.py both yield the empty
\* mapping.
C11_EmptyMapping ==
    LoadFailed =>
        (IF op = "chatbot_chat" THEN load_course_curriculum(curriculum_file)
         ELSE api_load_course_curriculum(curriculum_file)) = EmptyDict

\* C11 as amended: with the curriculum file absent or unparseable the load does
\* not raise; it yields None in chatbot.py and the empty mapping in
\* skillcapital_chatbot_api.py, both of which count as "no curriculum", and the
\* request completes as it does for a file holding {}: /api/chat answers 200 with
\* a regular answer (neither error sentence), /smart-chatbot answers what the crew
\* produced, with no matched course.
C11_LoadNeverRaises ==
    LoadFailed =>
        /\ op = "chatbot_chat" =>
              /\ load_course_curriculum(curriculum_file) = NoneData
              /\ result.status = 200
              /\ result.key = "response"
              /\ result.text \notin {FALLBACK, CHAT_ERROR}
              /\ result.text = get_smart_answer(JsonFile(EmptyDict), user_input_lower).text
        /\ op = "smart_chatbot" =>
              /\ api_load_course_curriculum(curriculum_file) = EmptyDict
              /\ result.value = <<>>
              /\ \E crew \in CrewOutcomes :
                    result = smart_chatbot(request, JsonFile(EmptyDict), crew).res
              /\ result.key = "final_summary" => result.status = 200

C11_Witness ==
    /\ pc = "done"
    /\ op = "chatbot_chat"
    /\ curriculum_file = UnparseableFile
    /\ request = StrArg("curriculum")
    /\ result = Http(200, "response", OVERVIEW_DEFAULT)

\* C12: at every chat endpoint a failure other than missing input is answered
\* by the handler itself, with status 200 or 500 and one generic sentence that
\* points to the website, so that the body tells nothing about the kind of failure.
C12_GenericFallback ==
    (pc = "done" /\ result.status = 500) =>
        /\ result.key # "unhandled"
        /\ result.text \in {FALLBACK, CHAT_ERROR}

ProfileFields == {"name", "email", "phone"}

\* thread w has finished handler o and holds its response
Finished(w, o) == workers[w].pc = "done" /\ workers[w].op = o

\* C13: in a sequence of requests to chatbot.py, a request that fails (400 or
\* 500, an initialize call that fails part-way included) leaves the process
\* state as it was when the request arrived, so that later requests are answered
\* as if it had not been made.
C13_FailureLeavesNoTrace ==
    \A w \in Workers :
        (workers[w].pc = "done" /\ workers[w].res.status \in {400, 500}) =>
            user_data = probe.start

\* C14: collect_user_info asks for each missing field until the answer is valid:
\* an answer that is blank (name), has no "@" (email) or is shorter than 10
\* characters (phone) stores nothing and the same field is asked again, without
\* limit; /api/initialize answers 200 only with a non-empty name, an email with
\* "@" and a phone of at least 10 characters in the record; and a call that is
\* collecting ends once acceptable answers are given (or input() raises).
C14_BlocksUntilValid ==
    /\ [](\A w \in Workers :
            (Finished(w, "initialize") /\ workers[w].res.status = 200) =>
                /\ user_data.name # ""
                /\ \E i \in 1..Len(user_data.email) : SubSeq(user_data.email, i, i) = "@"
                /\ Len(user_data.phone) >= 10)
    /\ [][\A w \in Workers :
            (/\ workers[w].pc = "input"
             /\ workers'[w] # workers[w]
             /\ probe'.line.kind = "line"
             /\ LET a == Strip(probe'.line.s)
                IN  CASE workers[w].field = "name"  -> a = ""
                      [] workers[w].field = "email" -> ~Contains(a, "@")
                      [] workers[w].field = "phone" -> Len(a) < 10)
            => /\ user_data' = user_data
               /\ workers'[w].pc = "test"
               /\ workers'[w].field = workers[w].field]_vars
    /\ [][\A w \in Workers :
            (/\ workers[w].pc = "test"
             /\ user_data[workers[w].field] = ""
             /\ workers'[w] # workers[w])
            => /\ workers'[w].pc = "input"
               /\ workers'[w].field = workers[w].field]_vars
    /\ \A w \in Workers :
          (workers[w].pc \in {"test", "input"}) ~> (workers[w].pc = "done")

C14_Witness ==
    \E w \in Workers :
        /\ workers[w].pc = "test"
        /\ workers[w].field = "email"
        /\ probe.line = Line("9876543210")
        /\ user_data.name = "Asha Rao"
        /\ user_data.email = ""

Complete(profile) == \A f \in ProfileFields : profile[f] # ""

\* C15: the profile is empty at process start; with requests handled one after
\* the other, a field that is set keeps its value, a chat request does not write
\* the record, and an initialize call that finds all three fields set prompts for
\* nothing and returns 200 with the record as it found it.
C15_PopulatedOnce ==
    /\ user_data = EmptyProfile
    /\ [][\A f \in ProfileFields : user_data[f] # "" => user_data'[f] = user_data[f]]_vars
    /\ [][(\E w \in Workers : workers[w].pc = "idle" /\ workers'[w].op = "chat")
            => user_data' = user_data]_vars
    /\ [](\A w \in Workers :
            (workers[w].op = "initialize" /\ Complete(probe.start)) =>
                /\ ~probe.prompted
                /\ workers[w].pc # "input"
                /\ user_data = probe.start
                /\ workers[w].pc = "done" => workers[w].res.status = 200)

C15_Witness ==
    \E w \in Workers :
        /\ Finished(w, "initialize")
        /\ workers[w].res.status = 200
        /\ Complete(probe.start)
        /\ ~probe.prompted
        /\ user_data = probe.start

\* C16: nothing protects the profile against concurrent initialize calls: every
\* answer a call accepts is written, also over a value another call has written
\* meanwhile, so each field holds the answer accepted last, whichever call it was
\* given to (the witness is a run in which two calls were asked for the name, the
\* second answer replaced the first, and name and email come from different calls).
C16_LastAnswerWins ==
    \A f \in ProfileFields : user_data[f] = log[f].value

C16_Witness ==
    /\ \A w \in {1, 2} : Finished(w, "initialize") /\ workers[w].res.status = 200
    /\ log["name"].replaced
    /\ log["name"].w = 2
    /\ log["email"].w = 1
    /\ user_data.name = "9876543210"
    /\ user_data.email = "a@b.c"

\* C17: whatever the interleaving of overlapping initialize calls and chat
\* requests, no thread ends in an unhandled error: an initialize call that has
\* finished answers 200 or 500, a chat request 200, 400 or 500.
C17_NoCrash ==
    \A w \in Workers :
        /\ workers[w].res.key # "unhandled"
        /\ Finished(w, "initialize") => workers[w].res \in {InitOk, InitFailed}
        /\ Finished(w, "chat") =>
              workers[w].res.key = "response" /\ workers[w].res.status \in {200, 400, 500}

C17_Witness ==
    \E w1, w2 \in Workers :
        /\ w1 # w2
        /\ Finished(w1, "initialize")
        /\ workers[w1].res.status = 500
        /\ workers[w2].pc = "input"
        /\ workers[w2].field = "name"

\* C19: in every reachable state, whatever the interleaving of concurrent
\* initialize calls, a phone is stored only with an email and an email only with
\* a name, a stored email contains "@", a stored phone has at least 10
\* characters, and the greeted flag is False.
C19_FilledInOrder ==
    /\ user_data.phone # "" => user_data.email # ""
    /\ user_data.email # "" => user_data.name # ""
    /\ user_data.email # "" =>
          \E i \in 1..Len(user_data.email) : SubSeq(user_data.email, i, i) = "@"
    /\ user_data.phone # "" => Len(user_data.phone) >= 10
    /\ user_data.greeted = FALSE

C19_Witness ==
    /\ Complete(user_data)
    /\ log["email"].w # log["phone"].w
    /\ \E w \in Workers : workers[w].pc = "input"

\* second of the latest accepted message, 0 before the first
LastAccepted == IF ui.accepted = <<>> THEN 0 ELSE ui.accepted[Len(ui.accepted)]

\* C18: in a chat session a message is accepted only if 5 seconds or more have
\* passed since the last accepted one, so accepted messages are at least 5 seconds
\* apart, "New Chat" clicks in between or not; a rejected message changes neither
\* last_sent_time nor the history, so it does not prolong the wait.
C18_RateLimit ==
    /\ [](\A i, j \in 1..Len(ui.accepted) :
            i < j => ui.accepted[i] + 5 <= ui.accepted[j])
    /\ [](session.last_sent_time = LastAccepted)
    /\ [][Len(ui'.accepted) > Len(ui.accepted) =>
            /\ LastAccepted + 5 <= now
            /\ ui'.accepted = Append(ui.accepted, now)
            /\ Len(session'.messages) = Len(session.messages) + 2]_vars
    /\ [][(ui'.event = "rejected") => session' = session]_vars
    /\ [][(ui'.event = "rejected" /\ ui' # ui) => now < LastAccepted + 5]_vars

C18_Witness ==
    /\ ui.event = "rejected"
    /\ session.messages = <<>>
    /\ Len(ui.accepted) = 2
    /\ now = LastAccepted + 4

\* C20: after every run of the script the history alternates user, assistant,
\* user, assistant, ... from a user entry on (so its length is even); an accepted
\* message adds the user entry and one assistant entry, which holds the reply (the
\* error reply if the completion call raised), and the text the typewriter showed
\* equals that reply; "New Chat" empties the history.
C20_Alternation ==
    LET msgs == session.messages
        n    == Len(msgs)
    IN  /\ n % 2 = 0
        /\ \A i \in 1..n : msgs[i].role = (IF i % 2 = 1 THEN "user" ELSE "assistant")
        /\ ui.event = "accepted" =>
              /\ n >= 2
              /\ msgs[n - 1] = [role |-> "user", content |-> ui.user_input]
              /\ msgs[n] = [role |-> "assistant", content |-> ui.reply]
              /\ ui.shown = ui.reply
        /\ ui.event = "new_chat" => msgs = <<>>

C20_Witness ==
    /\ ui.event = "accepted"
    /\ ui.reply = "<U+26A0> Something went wrong while fetching response."
    /\ Len(session.messages) = 4
    /\ session.messages[2].content = "Hi there!"

=============================================================================
